---- MODULE Spec2Model ----
(***************************************************************************)
(* A model of tkr_qulacs_worker: the outcome encoder (src/results.rs), the *)
(* gate translator, the shot execution driver and the run() entry point    *)
(* (src/main.rs).  Both builds are modelled: the default per-shot build    *)
(* and the build with the "mpi" feature (bulk sampling).                   *)
(***************************************************************************)
EXTENDS Integers, Sequences, FiniteSets, TLC

(***************************************************************************)
(* Bounds of the model.                                                    *)
(***************************************************************************)
MaxShotLen == 9      \* longest word array handed to convert_shot
MaxWidth == 66       \* largest declared width handed to convert_samples
MaxSamples == 2      \* longest sample list handed to convert_samples

Min(a, b) == IF a < b THEN a ELSE b

Max(a, b) == IF a < b THEN b ELSE a

(***************************************************************************)
(* The outcome encoder, src/results.rs.                                    *)
(*                                                                         *)
(* A u64 sample is the set of its set bit positions (0 = least             *)
(* significant), so that all 64 bits are kept exactly.                     *)
(***************************************************************************)
WordBits == 64

U64(n) == {i \in 0..30 : (n \div (2 ^ i)) % 2 = 1}

\* BitVec::<u64, Lsb0>::from_element(sample): the 64 bits, bit 0 first.
FromElementLsb0(sample) == [i \in 1..WordBits |-> IF (i - 1) \in sample THEN 1 ELSE 0]

\* BitVec::<u64, Lsb0>::from_vec(shot).chunks(64).map(first): the first bit
\* of every 64-bit chunk in Lsb0 order is the least significant bit of the word.
FirstBitOfChunks(shot) == [i \in 1..Len(shot) |-> shot[i] % 2]

BitAt(bits, i) == IF i <= Len(bits) THEN bits[i] ELSE 0

ElementLsb0(bits, j) ==
    LET b == 8 * (j - 1)
    IN  BitAt(bits, b + 1) + BitAt(bits, b + 2) * 2
      + BitAt(bits, b + 3) * 4 + BitAt(bits, b + 4) * 8
      + BitAt(bits, b + 5) * 16 + BitAt(bits, b + 6) * 32
      + BitAt(bits, b + 7) * 64 + BitAt(bits, b + 8) * 128

\* One u8 element of a BitVec<u8, Msb0>: the first bit of the element is
\* its most significant bit; dead bits of the last element are zero.
ElementMsb0(bits, j) ==
    LET b == 8 * (j - 1)
    IN  BitAt(bits, b + 1) * 128 + BitAt(bits, b + 2) * 64
      + BitAt(bits, b + 3) * 32 + BitAt(bits, b + 4) * 16
      + BitAt(bits, b + 5) * 8 + BitAt(bits, b + 6) * 4
      + BitAt(bits, b + 7) * 2 + BitAt(bits, b + 8)

\* collect::<BitVec<u8, Msb0>>().into_vec()
IntoVecMsb0(bits) == [j \in 1..((Len(bits) + 7) \div 8) |-> ElementMsb0(bits, j)]

convert_shot(shot) == IntoVecMsb0(FirstBitOfChunks(shot))

\* Vec::truncate
Truncate(vec, n) == SubSeq(vec, 1, Min(n, Len(vec)))

convert_sample(trunc, sample) == Truncate(IntoVecMsb0(FromElementLsb0(sample)), trunc)

\* An OutcomeArray, or the panic of shots.first().unwrap() on an empty list.
OutcomeArray(width, array) == [panic |-> FALSE, width |-> width, array |-> array]

OutcomePanic == [panic |-> TRUE, width |-> 0, array |-> <<>>]

convert_shots(shots) ==
    IF shots = <<>>
    THEN OutcomePanic
    ELSE OutcomeArray(Len(shots[1]), [k \in 1..Len(shots) |-> convert_shot(shots[k])])

TruncFloor(width) == width \div 8

\* let (div, rem) = div_rem(width, 8); div + (if rem > 0 { 1 } else { 0 })
TruncOf(width) == (width \div 8) + (IF width % 8 > 0 THEN 1 ELSE 0)

convert_samples(width, samples) ==
    OutcomeArray(width, [k \in 1..Len(samples) |-> convert_sample(TruncOf(width), samples[k])])

(***************************************************************************)
(* The random stream, src/main.rs new_rng.  A generator is its kind, the   *)
(* state it was created from and the number of values drawn so far; the    *)
(* value drawn is a fixed function of the three.                           *)
(***************************************************************************)
DrawMod == 8         \* draws are abstracted to 0..DrawMod-1

NoSeed == <<>>

Some(x) == <<x>>

SeedIgnored(seed, entropy) == [kind |-> "ThreadRng", state |-> entropy, pos |-> 0]

new_rng(seed, entropy) ==
    IF seed # NoSeed
    THEN [kind |-> "SmallRng", state |-> seed[1], pos |-> 0]
    ELSE [kind |-> "ThreadRng", state |-> entropy, pos |-> 0]

\* The value rng.random() returns.
RandomValue(rng) ==
    (rng.state * 5 + rng.pos * 3 + rng.state * rng.pos
       + (IF rng.kind = "ThreadRng" THEN 1 ELSE 0)) % DrawMod

StreamStuck(rng) == rng

\* The generator after rng.random().
Advance(rng) == [rng EXCEPT !.pos = @ + 1]

(***************************************************************************)
(* Circuits (tket_json_rs SerialCircuit) and f64 parameter values.         *)
(*                                                                         *)
(* A register label is a register name and an index.  A parameter is a     *)
(* symbolic expression string.  An f64 is modelled as [num, piPow],        *)
(* standing for (num / 2) * pi^piPow: enough for the parameters below and  *)
(* for the scaling by PI of the translator.                                *)
(***************************************************************************)
Label(reg, idx) == [reg |-> reg, idx |-> idx]

Q(i) == Label("q", i)

C(i) == Label("c", i)

Command(op_type, params, args) == [op_type |-> op_type, params |-> params, args |-> args]

Circuit(qubits, bits, commands) == [qubits |-> qubits, bits |-> bits, commands |-> commands]

F64(num, piPow) == [num |-> num, piPow |-> piPow]

Neg(x) == [x EXCEPT !.num = -@]

TimesPI(x) == [x EXCEPT !.piPow = @ + 1]

\* fasteval on the rewritten string: the value, or a parse/eval error.
ParamStrings == {"0", "1/2", "1", "2**2", "pi/2", "x", "(1"}

Evaluated(param) ==
    CASE param = "0" -> [ok |-> TRUE, val |-> F64(0, 0)]
      [] param = "1/2" -> [ok |-> TRUE, val |-> F64(1, 0)]
      [] param = "1" -> [ok |-> TRUE, val |-> F64(2, 0)]
      [] param = "2**2" -> [ok |-> TRUE, val |-> F64(8, 0)]
      [] param = "pi/2" -> [ok |-> TRUE, val |-> F64(1, 1)]
      [] OTHER -> [ok |-> FALSE, val |-> F64(0, 0)]

\* Evaluator::eval_param(cmd, index): Err on a malformed expression; the
\* callers unwrap.  A missing parameter list or index panics.
eval_param(cmd, index) ==
    IF index + 1 > Len(cmd.params)
    THEN [ok |-> FALSE, val |-> F64(0, 0)]
    ELSE Evaluated(cmd.params[index + 1])

\* get_arg(cmd, index): args[index].1[0] converted i64 -> u32 with
\* try_into().expect(): a panic when the argument is missing or the stored
\* index does not fit u32 (here: is negative).
get_arg(cmd, index) ==
    IF index + 1 > Len(cmd.args)
    THEN [ok |-> FALSE, val |-> 0]
    ELSE IF cmd.args[index + 1].idx < 0
         THEN [ok |-> FALSE, val |-> 0]
         ELSE [ok |-> TRUE, val |-> cmd.args[index + 1].idx]

(***************************************************************************)
(* Primitive gates of the simulator (qulacs_bridge::ffi constructors).     *)
(***************************************************************************)
Gate(kind, targets, angle, reg, seed, parts) ==
    [kind |-> kind, targets |-> targets, angle |-> angle, reg |-> reg,
     seed |-> seed, parts |-> parts]

NoAngle == F64(0, 0)

Plain(kind, targets) == Gate(kind, targets, NoAngle, 0, 0, <<>>)

Rotation(kind, targets, angle) == Gate(kind, targets, angle, 0, 0, <<>>)

new_measurement(index, reg, seed) == Gate("Measurement", <<index>>, NoAngle, reg, seed, <<>>)

PartsOf(g) == IF g.kind = "Merged" THEN g.parts ELSE <<g>>

\* merge(first, second): one gate that applies first, then second.
merge(first, second) ==
    Gate("Merged", first.targets, NoAngle, 0, 0, PartsOf(first) \o PartsOf(second))

(***************************************************************************)
(* The gate translator, src/main.rs convert_circuit: one command.          *)
(***************************************************************************)
\* -evaluator.eval_param(..).unwrap() * PI
QulacsAngle(v) == TimesPI(Neg(v))

PhasedXSameSign(index, alpha, beta) ==
    merge(merge(Rotation("RZ", <<index>>, beta), Rotation("RX", <<index>>, alpha)),
          Rotation("RZ", <<index>>, beta))

\* merge(&merge(&new_r_z_gate(index, beta), &new_r_x_gate(index, alpha)),
\*       &new_r_z_gate(index, -beta))
PhasedXGate(index, alpha, beta) ==
    merge(merge(Rotation("RZ", <<index>>, beta), Rotation("RX", <<index>>, alpha)),
          Rotation("RZ", <<index>>, Neg(beta)))

NoGate == Plain("None", <<>>)

\* What translating one command yields: the gate, whether a value was drawn
\* from the stream, and the parameter indices evaluated, in order.  status
\* is "ok" or the kind of panic that ends the process.
Translated(status, gate, drew, evals) ==
    [status |-> status, gate |-> gate, drew |-> drew, evals |-> evals]

Panicked(status, evals) == Translated(status, NoGate, FALSE, evals)

OneQubit(kind, cmd) ==
    LET a == get_arg(cmd, 0)
    IN  IF a.ok THEN Translated("ok", Plain(kind, <<a.val>>), FALSE, <<>>)
        ELSE Panicked("argument", <<>>)

TranslateCX(cmd) ==
    LET control == get_arg(cmd, 0)
        target == get_arg(cmd, 1)
    IN  IF ~control.ok \/ ~target.ok THEN Panicked("argument", <<>>)
        ELSE Translated("ok", Plain("CNOT", <<control.val, target.val>>), FALSE, <<>>)

TranslatePhasedX(cmd) ==
    LET index == get_arg(cmd, 0)
        alpha == eval_param(cmd, 0)
        beta == eval_param(cmd, 1)
    IN  IF ~index.ok THEN Panicked("argument", <<>>)
        ELSE IF ~alpha.ok THEN Panicked("parameter", <<0>>)
        ELSE IF ~beta.ok THEN Panicked("parameter", <<0, 1>>)
        ELSE Translated("ok",
                        PhasedXGate(index.val, QulacsAngle(alpha.val), QulacsAngle(beta.val)),
                        FALSE, <<0, 1>>)

TranslateZZPhase(cmd) ==
    LET index_1 == get_arg(cmd, 0)
        index_2 == get_arg(cmd, 1)
        alpha == eval_param(cmd, 0)
    IN  IF ~index_1.ok \/ ~index_2.ok THEN Panicked("argument", <<>>)
        ELSE IF ~alpha.ok THEN Panicked("parameter", <<0>>)
        ELSE Translated("ok",
                        Rotation("PauliRotationZZ", <<index_1.val, index_2.val>>,
                                 QulacsAngle(alpha.val)),
                        FALSE, <<0>>)

\* Measure: an identity gate in the mpi build; in the default build a
\* measurement gate seeded with one value drawn from the stream.
TranslateMeasure(cmd, rng, mpi) ==
    LET index == get_arg(cmd, 0)
        reg == get_arg(cmd, 1)
    IN  IF mpi
        THEN IF index.ok THEN Translated("ok", Plain("Identity", <<index.val>>), FALSE, <<>>)
             ELSE Panicked("argument", <<>>)
        ELSE IF ~index.ok \/ ~reg.ok THEN Panicked("argument", <<>>)
             ELSE Translated("ok", new_measurement(index.val, reg.val, RandomValue(rng)),
                             TRUE, <<>>)

TranslateCommand(cmd, rng, mpi) ==
    CASE cmd.op_type = "X" -> OneQubit("X", cmd)
      [] cmd.op_type = "Y" -> OneQubit("Y", cmd)
      [] cmd.op_type = "Z" -> OneQubit("Z", cmd)
      [] cmd.op_type = "H" -> OneQubit("H", cmd)
      [] cmd.op_type = "CX" -> TranslateCX(cmd)
      [] cmd.op_type = "PhasedX" -> TranslatePhasedX(cmd)
      [] cmd.op_type = "ZZPhase" -> TranslateZZPhase(cmd)
      [] cmd.op_type = "Measure" -> TranslateMeasure(cmd, rng, mpi)
      [] OTHER -> Panicked("unimplemented", <<>>)

(***************************************************************************)
(* The simulator behind qulacs_bridge::ffi.  Its linear algebra is outside *)
(* this repository; it is modelled as a deterministic function of the      *)
(* gates and of the random values handed to it.  A qubit is 0, 1 or 2      *)
(* (in superposition); measuring a qubit in superposition yields a bit     *)
(* computed from the seeds the simulator was given.  The classical         *)
(* register belongs to the state object and grows to the highest index     *)
(* written; set_zero_state leaves it alone.                                *)
(***************************************************************************)
Superposed == 2

new_quantum_state(n_qubits) == [q |-> [i \in 1..n_qubits |-> 0], creg |-> <<>>]

set_zero_state(state) == [state EXCEPT !.q = [i \in DOMAIN state.q |-> 0]]

Flip(v) == IF v = 0 THEN 1 ELSE IF v = 1 THEN 0 ELSE v

SetQubit(state, t, v) == [state EXCEPT !.q[t + 1] = v]

SetClassical(creg, reg, v) ==
    [i \in 1..Max(Len(creg), reg + 1) |->
        IF i = reg + 1 THEN v ELSE IF i <= Len(creg) THEN creg[i] ELSE 0]

\* A rotation about X by (num / 2) * pi^piPow.
ApplyRX(state, t, angle) ==
    IF angle.num = 0 \/ (angle.piPow = 1 /\ angle.num % 8 = 0) THEN state
    ELSE IF angle.piPow = 1 /\ angle.num % 4 = 2 THEN SetQubit(state, t, Flip(state.q[t + 1]))
    ELSE SetQubit(state, t, Superposed)

ApplyPrimitive(state, g, shotSeed, k) ==
    LET t == g.targets[1]
        v == state.q[t + 1]
    IN  CASE g.kind \in {"X", "Y"} -> SetQubit(state, t, Flip(v))
          [] g.kind = "H" -> SetQubit(state, t, IF v = Superposed THEN 0 ELSE Superposed)
          [] g.kind = "CNOT" ->
                LET c == state.q[g.targets[1] + 1]
                    tt == g.targets[2]
                IN  IF c = 1 THEN SetQubit(state, tt, Flip(state.q[tt + 1]))
                    ELSE IF c = Superposed THEN SetQubit(state, tt, Superposed)
                    ELSE state
          [] g.kind = "RX" -> ApplyRX(state, t, g.angle)
          [] g.kind = "Measurement" ->
                LET outcome == IF v = Superposed THEN (g.seed + shotSeed + k) % 2 ELSE v
                IN  [q |-> [state.q EXCEPT ![t + 1] = outcome],
                     creg |-> SetClassical(state.creg, g.reg, outcome)]
          [] OTHER -> state    \* Z, RZ, PauliRotationZZ, Identity: diagonal

RECURSIVE ApplyParts(_, _, _, _, _)
ApplyParts(state, parts, i, shotSeed, k) ==
    IF i > Len(parts) THEN state
    ELSE ApplyParts(ApplyPrimitive(state, parts[i], shotSeed, k), parts, i + 1, shotSeed, k)

RECURSIVE ApplyGates(_, _, _, _)
ApplyGates(state, gates, k, shotSeed) ==
    IF k > Len(gates) THEN state
    ELSE ApplyGates(ApplyParts(state, PartsOf(gates[k]), 1, shotSeed, k), gates, k + 1, shotSeed)

update_quantum_state(gates, state, seed) == ApplyGates(state, gates, 1, seed)

get_classical_register(state) == state.creg

\* quantum_state_sampling(state, n_shot, seed): n_shot basis states as u64.
quantum_state_sampling(state, n_shot, seed) ==
    [j \in 1..n_shot |->
        {i \in 0..(Len(state.q) - 1) :
            \/ state.q[i + 1] = 1
            \/ state.q[i + 1] = Superposed /\ (seed + j + i) % 2 = 1}]

\* add_gate_copy refuses a gate on a qubit the circuit does not have.
GateFits(gate, n_qubits) == \A i \in 1..Len(gate.targets) : gate.targets[i] < n_qubits

(***************************************************************************)
(* State.                                                                  *)
(*   env         the build feature, the node definition's selector, the    *)
(*               number of processes, the seed and the input files         *)
(*   pc          where each process is in run() / simulate_circuits()      *)
(*   rng         each process's random stream                              *)
(*   circuits, n_shots   what each process has read                        *)
(*   cur         the simulate_circuit call in progress: the circuit, the   *)
(*               gates added so far, the simulator state, the raw shots    *)
(*   results     the BackendResults each process has collected             *)
(*   drawLog     every rng.random() of a process, in order                 *)
(*   evalLog     every eval_param of a process, in order                   *)
(*   failure     why a process ended without Ok(())                        *)
(*   outputFile, marker, fileLog   the output file, the completion marker  *)
(*               and every file creation or write, in order                *)
(*   enc         a call of the outcome encoder on its own                  *)
(***************************************************************************)
VARIABLES env, pc, rng, circuits, n_shots, cur, results, drawLog, evalLog,
          failure, outputFile, marker, fileLog, enc

vars == <<env, pc, rng, circuits, n_shots, cur, results, drawLog, evalLog,
          failure, outputFile, marker, fileLog, enc>>

fileVars == <<outputFile, marker, fileLog>>

Procs == 0..(env.nProcs - 1)

NoCircuit == Circuit(<<>>, <<>>, <<>>)

NoCall == [circuit |-> NoCircuit, gates |-> <<>>, state |-> new_quantum_state(0), shots |-> <<>>]

NoRng == [kind |-> "none", state |-> 0, pos |-> 0]

NoFile == [exists |-> FALSE, complete |-> FALSE, content |-> <<>>]

EncIdle == [op |-> "none", shot |-> <<>>, width |-> 0, samples |-> <<>>,
            bytes |-> <<>>, outcome |-> OutcomeArray(0, <<>>), done |-> FALSE]

Goto(p, where) == pc' = [pc EXCEPT ![p] = where]

Fail(p, why) ==
    /\ pc' = [pc EXCEPT ![p] = "failed"]
    /\ failure' = [failure EXCEPT ![p] = why]

Draw(p, by, k) ==
    [pos |-> rng[p].pos, value |-> RandomValue(rng[p]), by |-> by,
     circ |-> Len(results[p]) + 1, k |-> k]

(***************************************************************************)
(* run(): the selector, the input files.  src/main.rs 198-261.             *)
(***************************************************************************)
SelectorKnown(selector, mpi) ==
    \/ selector \in {"submit", "submit_single"}
    \/ selector = "submit_single_mpi" /\ mpi

\* match &*node_definition.function_name
Dispatch(p) ==
    /\ pc[p] = "start"
    /\ IF SelectorKnown(env.selector, env.mpi)
       THEN Goto(p, "open_circuits") /\ UNCHANGED failure
       ELSE Fail(p, "unimplemented")
    /\ UNCHANGED <<env, rng, circuits, n_shots, cur, results, drawLog, evalLog, fileVars, enc>>

\* File::open(inputs["circuits" | "circuit"])?, serde_json::from_reader(..)?
OpenCircuits(p) ==
    /\ pc[p] = "open_circuits"
    /\ \E outcome \in {"ok", "open_error", "decode_error"} :
          IF outcome = "ok"
          THEN /\ circuits' = [circuits EXCEPT ![p] = env.circuits]
               /\ Goto(p, "open_n_shots")
               /\ UNCHANGED failure
          ELSE /\ Fail(p, outcome)
               /\ UNCHANGED circuits
    /\ UNCHANGED <<env, rng, n_shots, cur, results, drawLog, evalLog, fileVars, enc>>

\* File::open(inputs["n_shots"])?, serde_json::from_reader(..)?
OpenNShots(p) ==
    /\ pc[p] = "open_n_shots"
    /\ \E outcome \in {"ok", "open_error", "decode_error"} :
          IF outcome = "ok"
          THEN /\ n_shots' = [n_shots EXCEPT ![p] = env.n_shots]
               /\ Goto(p, "new_rng")
               /\ UNCHANGED failure
          ELSE /\ Fail(p, outcome)
               /\ UNCHANGED n_shots
    /\ UNCHANGED <<env, rng, circuits, cur, results, drawLog, evalLog, fileVars, enc>>

(***************************************************************************)
(* simulate_circuits / simulate_circuit.  src/main.rs 147-196.             *)
(***************************************************************************)
\* What the operating system may seed an unseeded generator with.
Entropy == {1, 2}

\* let mut rng = new_rng(seed): once per run, before the first circuit.
NewRng(p) ==
    /\ pc[p] = "new_rng"
    /\ \E e \in Entropy : rng' = [rng EXCEPT ![p] = new_rng(env.seed, e)]
    /\ Goto(p, "next_circuit")
    /\ UNCHANGED <<env, circuits, n_shots, cur, results, drawLog, evalLog, failure,
                   fileVars, enc>>

\* Where simulate_circuit goes once the circuit is translated: the shot
\* loop of the default build does not run for n_shot = 0.
AfterTranslate(mpi, n_shot) == IF ~mpi /\ n_shot = 0 THEN "encode" ELSE "shots"

\* simulate_circuit entered for the next circuit of the list:
\* new_quantum_state, new_quantum_circuit.
BeginCircuit(p) ==
    /\ pc[p] = "next_circuit"
    /\ Len(results[p]) < Len(circuits[p])
    /\ LET circuit == circuits[p][Len(results[p]) + 1]
       IN  /\ cur' = [cur EXCEPT ![p] =
                        [circuit |-> circuit, gates |-> <<>>,
                         state |-> new_quantum_state(Len(circuit.qubits)),
                         shots |-> <<>>]]
           /\ Goto(p, IF circuit.commands = <<>>
                      THEN AfterTranslate(env.mpi, n_shots[p]) ELSE "translate")
    /\ UNCHANGED <<env, rng, circuits, n_shots, results, drawLog, evalLog, failure,
                   fileVars, enc>>

\* One iteration of convert_circuit's loop: translate the next command and
\* add_gate_copy the gate.
TranslateStep(p) ==
    /\ pc[p] = "translate"
    /\ LET k == Len(cur[p].gates) + 1
           circuit == cur[p].circuit
           t == TranslateCommand(circuit.commands[k], rng[p], env.mpi)
       IN  /\ evalLog' = [evalLog EXCEPT ![p] =
                            @ \o [i \in 1..Len(t.evals) |-> [cmd |-> k, param |-> t.evals[i]]]]
           /\ IF t.status # "ok"
              THEN /\ Fail(p, t.status)
                   /\ UNCHANGED <<cur, rng, drawLog>>
              ELSE IF ~GateFits(t.gate, Len(circuit.qubits))
              THEN /\ Fail(p, "simulator")
                   /\ rng' = [rng EXCEPT ![p] = IF t.drew THEN Advance(@) ELSE @]
                   /\ drawLog' = [drawLog EXCEPT ![p] =
                                    IF t.drew THEN Append(@, Draw(p, "measure", k)) ELSE @]
                   /\ UNCHANGED cur
              ELSE /\ cur' = [cur EXCEPT ![p].gates = Append(@, t.gate)]
                   /\ rng' = [rng EXCEPT ![p] = IF t.drew THEN Advance(@) ELSE @]
                   /\ drawLog' = [drawLog EXCEPT ![p] =
                                    IF t.drew THEN Append(@, Draw(p, "measure", k)) ELSE @]
                   /\ Goto(p, IF k = Len(circuit.commands)
                              THEN AfterTranslate(env.mpi, n_shots[p]) ELSE "translate")
                   /\ UNCHANGED failure
    /\ UNCHANGED <<env, circuits, n_shots, results, fileVars, enc>>

\* One iteration of the default build's shot loop: set_zero_state,
\* update_quantum_state(.., rng.random()), get_classical_register, push.
ShotStep(p) ==
    /\ pc[p] = "shots"
    /\ ~env.mpi
    /\ Len(cur[p].shots) < n_shots[p]
    /\ LET k == Len(cur[p].shots) + 1
           state == update_quantum_state(cur[p].gates, set_zero_state(cur[p].state),
                                         RandomValue(rng[p]))
       IN  /\ cur' = [cur EXCEPT ![p].state = state,
                                 ![p].shots = Append(@, get_classical_register(state))]
           /\ drawLog' = [drawLog EXCEPT ![p] = Append(@, Draw(p, "shot", k))]
           /\ Goto(p, IF k = n_shots[p] THEN "encode" ELSE "shots")
    /\ rng' = [rng EXCEPT ![p] = Advance(@)]
    /\ UNCHANGED <<env, circuits, n_shots, results, evalLog, failure, fileVars, enc>>

\* The mpi build: set_zero_state, update_quantum_state(.., rng.random()),
\* quantum_state_sampling(.., n_shot, rng.random()).
BulkStep(p) ==
    /\ pc[p] = "shots"
    /\ env.mpi
    /\ LET rng1 == Advance(rng[p])
           state == update_quantum_state(cur[p].gates, set_zero_state(cur[p].state),
                                         RandomValue(rng[p]))
           samples == quantum_state_sampling(state, n_shots[p], RandomValue(rng1))
       IN  /\ cur' = [cur EXCEPT ![p].state = state, ![p].shots = samples]
           /\ drawLog' = [drawLog EXCEPT ![p] =
                            @ \o <<Draw(p, "update", 1),
                                   [Draw(p, "sampling", 1) EXCEPT
                                       !.pos = rng1.pos, !.value = RandomValue(rng1)]>>]
           /\ rng' = [rng EXCEPT ![p] = Advance(rng1)]
    /\ Goto(p, "encode")
    /\ UNCHANGED <<env, circuits, n_shots, results, evalLog, failure, fileVars, enc>>

\* The width simulate_circuit hands to convert_samples in the mpi build.
SamplesWidth(n_shot, bits) == n_shot

\* The OutcomeArray of the call: convert_shots(shots) in the default build,
\* convert_samples(n_shot as usize, samples) in the mpi build.
Encoded(mpi, n_shot, bits, shots) ==
    IF mpi THEN convert_samples(SamplesWidth(n_shot, bits), shots) ELSE convert_shots(shots)

BackendResult(qubits, bits, shots) == [qubits |-> qubits, bits |-> bits, shots |-> shots]

\* The end of simulate_circuit: encode the shots, return the BackendResult.
EncodeStep(p) ==
    /\ pc[p] = "encode"
    /\ LET circuit == cur[p].circuit
           shots == Encoded(env.mpi, n_shots[p], circuit.bits, cur[p].shots)
       IN  IF shots.panic
           THEN /\ Fail(p, "no_first_shot")
                /\ UNCHANGED results
           ELSE /\ results' = [results EXCEPT ![p] =
                                 Append(@, BackendResult(circuit.qubits, circuit.bits, shots))]
                /\ Goto(p, "next_circuit")
                /\ UNCHANGED failure
    /\ UNCHANGED <<env, rng, circuits, n_shots, cur, drawLog, evalLog, fileVars, enc>>

(***************************************************************************)
(* run(): the output file and the completion marker.                       *)
(***************************************************************************)
AnyRankWrites(rank) == TRUE

\* if rank == 0 { .. } of submit_single_mpi
IsWriter(rank) == rank = 0

\* simulate_circuits has collected every result (or simulate_circuit has
\* returned, for the single-circuit selectors).
FinishSimulation(p) ==
    /\ pc[p] = "next_circuit"
    /\ Len(results[p]) = Len(circuits[p])
    /\ Goto(p, IF env.selector = "simulate_circuits" THEN "returned"
               ELSE IF env.selector = "submit_single_mpi" /\ ~IsWriter(p) THEN "done"
               ELSE "create_output")
    /\ UNCHANGED <<env, rng, circuits, n_shots, cur, results, drawLog, evalLog, failure,
                   fileVars, enc>>

FileEvent(p, op) == [rank |-> p, op |-> op]

\* File::create(outputs[..])?: creates or truncates the output file.
CreateOutput(p) ==
    /\ pc[p] = "create_output"
    /\ \E ok \in BOOLEAN :
          IF ok
          THEN /\ outputFile' = [exists |-> TRUE, complete |-> FALSE, content |-> <<>>]
               /\ fileLog' = Append(fileLog, FileEvent(p, "create_output"))
               /\ Goto(p, "write_output")
               /\ UNCHANGED failure
          ELSE /\ Fail(p, "output_error")
               /\ UNCHANGED <<outputFile, fileLog>>
    /\ UNCHANGED <<env, rng, circuits, n_shots, cur, results, drawLog, evalLog, marker, enc>>

WriteOutputUnchecked(p) ==
    /\ pc[p] = "write_output"
    /\ \E ok \in BOOLEAN :
          /\ outputFile' = [exists |-> TRUE, complete |-> ok,
                            content |-> IF ok THEN results[p] ELSE <<>>]
          /\ fileLog' = IF ok THEN Append(fileLog, FileEvent(p, "write_output")) ELSE fileLog
          /\ Goto(p, "create_marker")
          /\ UNCHANGED failure
    /\ UNCHANGED <<env, rng, circuits, n_shots, cur, results, drawLog, evalLog, marker, enc>>

\* serde_json::to_writer(output_file, &results)?: a failed write leaves
\* the file created with whatever had been written.
WriteOutput(p) ==
    /\ pc[p] = "write_output"
    /\ \E ok \in BOOLEAN :
          IF ok
          THEN /\ outputFile' = [exists |-> TRUE, complete |-> TRUE, content |-> results[p]]
               /\ fileLog' = Append(fileLog, FileEvent(p, "write_output"))
               /\ Goto(p, "create_marker")
               /\ UNCHANGED failure
          ELSE /\ Fail(p, "output_error")
               /\ UNCHANGED <<outputFile, fileLog>>
    /\ UNCHANGED <<env, rng, circuits, n_shots, cur, results, drawLog, evalLog, marker, enc>>

\* File::create(&node_definition.done_path)?; Ok(())
CreateMarker(p) ==
    /\ pc[p] = "create_marker"
    /\ \E ok \in BOOLEAN :
          IF ok
          THEN /\ marker' = TRUE
               /\ fileLog' = Append(fileLog, FileEvent(p, "create_marker"))
               /\ Goto(p, "done")
               /\ UNCHANGED failure
          ELSE /\ Fail(p, "marker_error")
               /\ UNCHANGED <<marker, fileLog>>
    /\ UNCHANGED <<env, rng, circuits, n_shots, cur, results, drawLog, evalLog, outputFile, enc>>

(***************************************************************************)
(* Inputs.                                                                 *)
(***************************************************************************)
MaxCircuits == 2     \* longest circuit list handed to submit
MaxShots == 2        \* largest n_shots
MaxRanks == 2        \* most ranks of an mpi run

Measure(q, c) == Command("Measure", <<>>, <<Q(q), C(c)>>)

Bell ==
    Circuit(<<Q(0), Q(1)>>, <<C(0), C(1)>>,
            <<Command("H", <<>>, <<Q(0)>>), Command("CX", <<>>, <<Q(0), Q(1)>>),
              Measure(0, 0), Measure(1, 1)>>)

PhasedXCircuit(alpha, beta) ==
    Circuit(<<Q(0)>>, <<C(0)>>,
            <<Command("PhasedX", <<alpha, beta>>, <<Q(0)>>), Measure(0, 0)>>)

ZZPhaseCircuit(alpha) ==
    Circuit(<<Q(0), Q(1)>>, <<C(0), C(1)>>,
            <<Command("H", <<>>, <<Q(1)>>), Command("ZZPhase", <<alpha>>, <<Q(0), Q(1)>>),
              Measure(0, 0), Measure(1, 1)>>)

\* Two declared bits, one measured.
OneOfTwoMeasured ==
    Circuit(<<Q(0), Q(1)>>, <<C(0), C(1)>>, <<Command("H", <<>>, <<Q(0)>>), Measure(0, 0)>>)

Unsupported == Circuit(<<Q(0)>>, <<C(0)>>, <<Measure(0, 0), Command("Rx", <<"1">>, <<Q(0)>>)>>)

NegativeIndex == Circuit(<<Q(0)>>, <<C(0)>>, <<Command("X", <<>>, <<Q(-1)>>)>>)

NoSuchQubit == Circuit(<<Q(0)>>, <<C(0)>>, <<Command("Z", <<>>, <<Q(0)>>), Command("Y", <<>>, <<Q(1)>>)>>)

CircuitMenu ==
    {Bell, PhasedXCircuit("1/2", "1"), PhasedXCircuit("x", "1"), ZZPhaseCircuit("0"),
     Unsupported, NegativeIndex, NoSuchQubit}

RankMenu == {Bell, PhasedXCircuit("1", "1/2"), Unsupported}

ListsOf(S, n) == UNION {[1..k -> S] : k \in 0..n}

Env(mpi, selector, nProcs, seed, cs, n) ==
    [mpi |-> mpi, selector |-> selector, nProcs |-> nProcs, seed |-> seed,
     circuits |-> cs, n_shots |-> n]

RunInputs ==
    {Env(m, "submit", 1, NoSeed, cs, n) :
        m \in BOOLEAN, cs \in ListsOf(CircuitMenu, MaxCircuits), n \in 0..MaxShots}
    \cup {Env(m, sel, 1, NoSeed, <<c>>, n) :
        m \in BOOLEAN, sel \in {"submit_single", "submit_single_mpi", "resubmit"},
        c \in CircuitMenu, n \in 0..MaxShots}
    \cup {Env(TRUE, "submit_single_mpi", r, NoSeed, <<c>>, n) :
        r \in 2..MaxRanks, c \in RankMenu, n \in 0..MaxShots}

InitProcs(start) ==
    /\ pc = [p \in Procs |-> start]
    /\ rng = [p \in Procs |-> NoRng]
    /\ circuits = [p \in Procs |-> <<>>]
    /\ n_shots = [p \in Procs |-> 0]
    /\ cur = [p \in Procs |-> NoCall]
    /\ results = [p \in Procs |-> <<>>]
    /\ drawLog = [p \in Procs |-> <<>>]
    /\ evalLog = [p \in Procs |-> <<>>]
    /\ failure = [p \in Procs |-> "none"]
    /\ outputFile = NoFile
    /\ marker = FALSE
    /\ fileLog = <<>>

\* One run of the worker: every process (rank) enters run().
Init ==
    /\ env \in RunInputs
    /\ InitProcs("start")
    /\ enc = EncIdle

Next ==
    \/ \E p \in Procs : Dispatch(p)
    \/ \E p \in Procs : OpenCircuits(p)
    \/ \E p \in Procs : OpenNShots(p)
    \/ \E p \in Procs : NewRng(p)
    \/ \E p \in Procs : BeginCircuit(p)
    \/ \E p \in Procs : TranslateStep(p)
    \/ \E p \in Procs : ShotStep(p)
    \/ \E p \in Procs : BulkStep(p)
    \/ \E p \in Procs : EncodeStep(p)
    \/ \E p \in Procs : FinishSimulation(p)
    \/ \E p \in Procs : CreateOutput(p)
    \/ \E p \in Procs : WriteOutput(p)
    \/ \E p \in Procs : CreateMarker(p)

Spec == Init /\ [][Next]_vars

(***************************************************************************)
(* Two independent callers of simulate_circuits(list, n_shot, seed) with   *)
(* the same arguments, as the seeded tests call it.                        *)
(***************************************************************************)
SeededMenu == {Bell, OneOfTwoMeasured, Unsupported}

Seeds == {NoSeed, Some(1), Some(2)}

SeededInputs ==
    {Env(m, "simulate_circuits", 2, seed, cs, n) :
        m \in BOOLEAN, seed \in Seeds, cs \in ListsOf(SeededMenu, MaxCircuits),
        n \in 0..MaxShots}

InitSeeded ==
    /\ env \in SeededInputs
    /\ pc = [p \in Procs |-> "new_rng"]
    /\ rng = [p \in Procs |-> NoRng]
    /\ circuits = [p \in Procs |-> env.circuits]
    /\ n_shots = [p \in Procs |-> env.n_shots]
    /\ cur = [p \in Procs |-> NoCall]
    /\ results = [p \in Procs |-> <<>>]
    /\ drawLog = [p \in Procs |-> <<>>]
    /\ evalLog = [p \in Procs |-> <<>>]
    /\ failure = [p \in Procs |-> "none"]
    /\ outputFile = NoFile
    /\ marker = FALSE
    /\ fileLog = <<>>
    /\ enc = EncIdle

NextSeeded ==
    \/ \E p \in Procs : NewRng(p)
    \/ \E p \in Procs : BeginCircuit(p)
    \/ \E p \in Procs : TranslateStep(p)
    \/ \E p \in Procs : ShotStep(p)
    \/ \E p \in Procs : BulkStep(p)
    \/ \E p \in Procs : EncodeStep(p)
    \/ \E p \in Procs : FinishSimulation(p)

SpecSeeded == InitSeeded /\ [][NextSeeded]_vars

(***************************************************************************)
(* convert_circuit on its own: one call on a circuit of one or two         *)
(* commands, with a stream that has already been drawn from.               *)
(***************************************************************************)
ArgIndices == {-1, 0, 1, 2}

CommandInputs ==
    {Command("PhasedX", <<a, b>>, <<Q(i)>>) : a \in ParamStrings, b \in ParamStrings,
                                              i \in ArgIndices}
    \cup {Command("PhasedX", <<a>>, <<Q(0)>>) : a \in ParamStrings}
    \cup {Command("ZZPhase", <<a>>, <<Q(i), Q(1)>>) : a \in ParamStrings, i \in ArgIndices}
    \cup {Command(op, <<>>, <<Q(i)>>) : op \in {"X", "Y", "Z", "H", "Rx"}, i \in ArgIndices}
    \cup {Command("CX", <<>>, <<Q(i), Q(j)>>) : i \in ArgIndices, j \in ArgIndices}
    \cup {Command("Measure", <<>>, <<Q(i), C(j)>>) : i \in ArgIndices, j \in ArgIndices}
    \cup {Command("Measure", <<>>, <<Label("r", 0), Label("d", 0)>>)}

\* A circuit whose qubits and bits are declared in two registers each.
TwoRegisters ==
    Circuit(<<Q(0), Label("r", 0)>>, <<C(0), Label("d", 0)>>,
            <<Command("X", <<>>, <<Q(0)>>), Command("H", <<>>, <<Label("r", 0)>>),
              Command("Measure", <<>>, <<Label("r", 0), Label("d", 0)>>)>>)

TranslateInputs ==
    {Env(m, "convert_circuit", 1, Some(1), <<Circuit(<<Q(0), Q(1)>>, <<C(0), C(1)>>, <<c>>)>>, 1) :
        m \in BOOLEAN, c \in CommandInputs}
    \cup {Env(m, "convert_circuit", 1, Some(1),
              <<Circuit(<<Q(0), Q(1)>>, <<C(0), C(1)>>, <<Measure(1, 0), c>>)>>, 1) :
        m \in BOOLEAN, c \in CommandInputs}
    \cup {Env(m, "convert_circuit", 1, Some(1), <<TwoRegisters>>, 1) : m \in BOOLEAN}

InitTranslate ==
    /\ env \in TranslateInputs
    /\ pc = [p \in Procs |-> "next_circuit"]
    /\ rng = [p \in Procs |-> Advance(new_rng(env.seed, 0))]
    /\ circuits = [p \in Procs |-> env.circuits]
    /\ n_shots = [p \in Procs |-> env.n_shots]
    /\ cur = [p \in Procs |-> NoCall]
    /\ results = [p \in Procs |-> <<>>]
    /\ drawLog = [p \in Procs |-> <<>>]
    /\ evalLog = [p \in Procs |-> <<>>]
    /\ failure = [p \in Procs |-> "none"]
    /\ outputFile = NoFile
    /\ marker = FALSE
    /\ fileLog = <<>>
    /\ enc = EncIdle

NextTranslate ==
    \/ \E p \in Procs : BeginCircuit(p)
    \/ \E p \in Procs : TranslateStep(p)

SpecTranslate == InitTranslate /\ [][NextTranslate]_vars

(***************************************************************************)
(* The outcome encoder on its own: one call of convert_shot or of          *)
(* convert_samples.                                                        *)
(***************************************************************************)
Words == {0, 1, 2}

SampleValues ==
    {U64(n) : n \in {0, 1, 2, 4, 8, 129, 512, 513, 65535, 8388608}} \cup {{63}, {0, 40, 63}}

\* Either a word array for convert_shot, or a width and a non-empty sample
\* list for convert_samples.
InitEncode ==
    /\ \/ \E n \in 0..MaxShotLen : \E shot \in [1..n -> Words] :
             enc = [EncIdle EXCEPT !.op = "convert_shot", !.shot = shot]
       \/ \E w \in 0..MaxWidth : \E n \in 1..MaxSamples : \E ss \in [1..n -> SampleValues] :
             enc = [EncIdle EXCEPT !.op = "convert_samples", !.width = w, !.samples = ss]
    /\ env = Env(FALSE, "none", 0, NoSeed, <<>>, 0)
    /\ InitProcs("none")

ConvertShotCall ==
    /\ enc.op = "convert_shot"
    /\ ~enc.done
    /\ enc' = [enc EXCEPT !.bytes = convert_shot(enc.shot), !.done = TRUE]
    /\ UNCHANGED <<env, pc, rng, circuits, n_shots, cur, results, drawLog, evalLog,
                   failure, fileVars>>

ConvertSamplesCall ==
    /\ enc.op = "convert_samples"
    /\ ~enc.done
    /\ enc' = [enc EXCEPT !.outcome = convert_samples(enc.width, enc.samples), !.done = TRUE]
    /\ UNCHANGED <<env, pc, rng, circuits, n_shots, cur, results, drawLog, evalLog,
                   failure, fileVars>>

NextEncode == ConvertShotCall \/ ConvertSamplesCall

SpecEncode == InitEncode /\ [][NextEncode]_vars

(***************************************************************************)
(* Properties of the outcome encoder (SpecEncode).                         *)
(***************************************************************************)
\* Bit i (0-based) of a byte array read most-significant-bit-first.
MsbBit(bytes, i) == (bytes[(i \div 8) + 1] \div (2 ^ (7 - (i % 8)))) % 2

\* n bits need exactly len bytes.
IsCeilDiv8(len, n) == 8 * len >= n /\ 8 * len < n + 8

ShotDone == enc.op = "convert_shot" /\ enc.done

\* C2: convert_shot returns exactly ceil(n/8) bytes; the least significant
\* bit of word i sits at MSB-first position i, so reading the first n bits
\* back recovers the bit sequence; every padding bit is zero; e.g.
\* [1,0,0,0,0,0,0,0] -> [128] and [0,0,0,0,0,0,0,1,1] -> [1,128].
C2_ShotPackingRoundTrips ==
    ShotDone =>
        LET n == Len(enc.shot)
            out == enc.bytes
        IN  /\ IsCeilDiv8(Len(out), n)
            /\ \A j \in 1..Len(out) : out[j] \in 0..255
            /\ \A i \in 0..(n - 1) : MsbBit(out, i) = enc.shot[i + 1] % 2
            /\ \A i \in n..(8 * Len(out) - 1) : MsbBit(out, i) = 0
            /\ (enc.shot = <<1, 0, 0, 0, 0, 0, 0, 0>> => out = <<128>>)
            /\ (enc.shot = <<0, 0, 0, 0, 0, 0, 0, 1, 1>> => out = <<1, 128>>)

\* A nine-word array, whose last word spills into a second byte, and whose
\* words are not all 0 or 1.
C2_Witness ==
    /\ ShotDone
    /\ enc.shot = <<2, 0, 1, 0, 0, 0, 0, 1, 1>>
    /\ enc.bytes = <<33, 128>>

SamplesDone == enc.op = "convert_samples" /\ enc.done /\ Len(enc.samples) = 1

SampleBit(sample, i) == IF i \in sample THEN 1 ELSE 0

\* C3 as stated: convert_samples(w, [s]) yields one shot of exactly
\* ceil(w/8) bytes whose MSB-first bit i is bit i of s; width 1, sample 0
\* -> [0]; width 1, sample 1 -> [128]; width 2, sample 512 -> [0,64].
C3_AsStated ==
    SamplesDone =>
        LET w == enc.width
            s == enc.samples[1]
            arr == enc.outcome.array
        IN  /\ Len(arr) = 1
            /\ IsCeilDiv8(Len(arr[1]), w)
            /\ \A i \in 0..(8 * Len(arr[1]) - 1) : MsbBit(arr[1], i) = SampleBit(s, i)
            /\ (w = 1 /\ s = U64(0) => arr[1] = <<0>>)
            /\ (w = 1 /\ s = U64(1) => arr[1] = <<128>>)
            /\ (w = 2 /\ s = U64(512) => arr[1] = <<0, 64>>)

\* C3, amended: convert_samples(w, [s]) records width w and yields one shot
\* of exactly min(ceil(w/8), 8) bytes whose MSB-first bit i is bit i of s
\* for every i in those bytes; width 1, sample 0 -> [0]; width 1, sample 1
\* -> [128]; sample 512 -> [0,64] for the widths 9..16 (two bytes), and
\* [0] for width 2.
C3_SamplePacking ==
    SamplesDone =>
        LET w == enc.width
            s == enc.samples[1]
            arr == enc.outcome.array
        IN  /\ enc.outcome.width = w
            /\ Len(arr) = 1
            /\ \/ w <= 64 /\ IsCeilDiv8(Len(arr[1]), w)
               \/ w > 64 /\ Len(arr[1]) = 8
            /\ \A i \in 0..(8 * Len(arr[1]) - 1) : MsbBit(arr[1], i) = SampleBit(s, i)
            /\ (w = 1 /\ s = U64(0) => arr[1] = <<0>>)
            /\ (w = 1 /\ s = U64(1) => arr[1] = <<128>>)
            /\ (w \in 9..16 /\ s = U64(512) => arr[1] = <<0, 64>>)
            /\ (w = 2 /\ s = U64(512) => arr[1] = <<0>>)

C3_Witness ==
    /\ SamplesDone
    /\ enc.width = 9
    /\ enc.samples = <<U64(512)>>
    /\ enc.outcome.array = <<(<<0, 64>>)>>

(***************************************************************************)
(* Properties of simulate_circuits under a seed (SpecSeeded).              *)
(***************************************************************************)
Returned(p) == pc[p] = "returned"

\* The draws of a process are consecutive values of one stream: the i-th
\* draw of the run is at stream position i - 1, whatever circuit it is for.
OneStream(p) == \A i \in 1..Len(drawLog[p]) : drawLog[p][i].pos = i - 1

\* C1: two independent runs of simulate_circuits with the same explicit
\* seed, circuit list and shot count return identical lists of outcome
\* records (and end the same way); all random values of a run come from one
\* stream, created once by new_rng and never reset between circuits.
C1_SeededRunsAgree ==
    /\ \A p \in Procs : OneStream(p) /\ rng[p].pos = Len(drawLog[p])
    /\ env.seed # NoSeed =>
          \A p \in Procs : \A q \in Procs :
              /\ \A k \in 1..Min(Len(results[p]), Len(results[q])) :
                    results[p][k] = results[q][k]
              /\ \A i \in 1..Min(Len(drawLog[p]), Len(drawLog[q])) :
                    drawLog[p][i] = drawLog[q][i]
              /\ (Returned(p) /\ pc[q] \in {"returned", "failed"}) =>
                    Returned(q) /\ results[p] = results[q]

\* Both seeded runs have returned the records of two circuits; the second
\* circuit drew from the stream where the first left it, and some shot is
\* not all zero.
C1_Witness ==
    /\ env.seed # NoSeed
    /\ ~env.mpi
    /\ \A p \in Procs : Returned(p) /\ Len(results[p]) = 2
    /\ \E i \in 1..Len(drawLog[0]) : drawLog[0][i].circ = 2 /\ drawLog[0][i].pos >= 3
    /\ \E k \in 1..2 : \E j \in 1..Len(results[0][k].shots.array) :
          results[0][k].shots.array[j] # <<0>>

(***************************************************************************)
(* Properties of run() (Spec).                                             *)
(***************************************************************************)
\* C4: in both builds the width of the outcome record simulate_circuit
\* returns is the number of declared bit labels, whatever the shot count,
\* and every shot has exactly ceil(width/8) bytes.  (Fails: see
\* SamplesWidth.)
C4_WidthIsRegisterWidth ==
    \A p \in Procs : \A k \in 1..Len(results[p]) :
        LET r == results[p][k]
        IN  /\ r.shots.width = Len(r.bits)
            /\ \A j \in 1..Len(r.shots.array) :
                  IsCeilDiv8(Len(r.shots.array[j]), r.shots.width)

EventsOf(op) == {i \in 1..Len(fileLog) : fileLog[i].op = op}

\* C5: the completion marker is created only as the last step of a
\* successful run: after the process read both inputs, simulated every
\* circuit and wrote the output completely; a process that fails, for
\* whatever reason, has not created the marker.
C5_MarkerOnlyAfterSuccess ==
    /\ marker <=> EventsOf("create_marker") # {}
    /\ \A i \in EventsOf("create_marker") :
          LET p == fileLog[i].rank
          IN  /\ pc[p] = "done"
              /\ failure[p] = "none"
              /\ circuits[p] = env.circuits
              /\ n_shots[p] = env.n_shots
              /\ Len(results[p]) = Len(env.circuits)
              /\ \E j \in 1..(i - 1) : fileLog[j] = FileEvent(p, "write_output")
              /\ outputFile.complete
              /\ outputFile.content = results[p]
    /\ \A p \in Procs :
          pc[p] = "failed" =>
              /\ failure[p] # "none"
              /\ \A i \in 1..Len(fileLog) : fileLog[i] # FileEvent(p, "create_marker")

\* Rank 0 completed and created the marker while another rank failed.
C5_Witness ==
    /\ marker
    /\ env.nProcs = 2
    /\ pc[0] = "done"
    /\ pc[1] = "failed"
    /\ Len(results[0]) = 1

\* C6: a run either completes, having written the output and the marker,
\* or fails and has written nothing: a failed process has neither created
\* nor written the output file or the marker.  (Fails: File::create of the
\* output precedes the steps that can still fail.)
C6_FailedRunWritesNothing ==
    \A p \in Procs :
        /\ pc[p] = "done" /\ (env.selector = "submit_single_mpi" => IsWriter(p)) =>
              outputFile.complete /\ marker
        /\ pc[p] = "failed" =>
              /\ \A i \in 1..Len(fileLog) : fileLog[i].rank # p
              /\ env.nProcs = 1 => outputFile = NoFile /\ ~marker

SimulationFinished(p) ==
    /\ Len(results[p]) = 1
    /\ pc[p] \in {"next_circuit", "create_output", "write_output", "create_marker",
                  "done", "failed"}

\* What a rank did to translate and simulate, apart from the values drawn.
StepsOf(p) ==
    [gates |-> cur[p].gates, evals |-> evalLog[p],
     draws |-> [i \in 1..Len(drawLog[p]) |-> [drawLog[p][i] EXCEPT !.value = 0]],
     shots |-> Len(cur[p].shots), width |-> results[p][1].shots.width]

\* C7: with R >= 1 ranks running submit_single_mpi in any interleaving, the
\* output file and the marker are each created/written at most once, only
\* by rank 0 and only after rank 0 finished its own simulation; every other
\* rank performs the same translation and simulation steps and writes
\* neither file.
C7_OnlyRankZeroWrites ==
    env.selector = "submit_single_mpi" =>
        /\ \A i \in 1..Len(fileLog) : fileLog[i].rank = 0 /\ SimulationFinished(0)
        /\ \A op \in {"create_output", "write_output", "create_marker"} :
              Cardinality(EventsOf(op)) <= 1
        /\ (outputFile.exists \/ marker) => fileLog # <<>>
        /\ \A p \in Procs :
              pc[p] = "done" =>
                  /\ SimulationFinished(p)
                  /\ SimulationFinished(0) => StepsOf(p) = StepsOf(0)

\* Two ranks are done: rank 0 wrote the output and the marker, rank 1
\* simulated the circuit and wrote nothing.
C7_Witness ==
    /\ env.selector = "submit_single_mpi"
    /\ env.nProcs = 2
    /\ pc[0] = "done" /\ pc[1] = "done"
    /\ marker /\ outputFile.complete
    /\ Len(fileLog) = 3
    /\ Len(results[1]) = 1 /\ Len(drawLog[1]) = 2

\* C8: for every shot count N >= 0 and every supported circuit, per-shot
\* simulate_circuit returns an outcome record with exactly N shots, the
\* k-th being the encoding of the register read after the k-th
\* reset-and-apply.  (Fails for N = 0: convert_shots unwraps the first
\* shot.)
C8_NShotsEntries ==
    ~env.mpi =>
        \A p \in Procs :
            /\ failure[p] \notin {"no_first_shot"}
            /\ \A k \in 1..Len(results[p]) :
                  Len(results[p][k].shots.array) = n_shots[p]
            /\ pc[p] = "next_circuit" /\ results[p] # <<>> =>
                  \A j \in 1..Len(cur[p].shots) :
                      results[p][Len(results[p])].shots.array[j] = convert_shot(cur[p].shots[j])

MeasureIndices(circuit) ==
    {k \in 1..Len(circuit.commands) : circuit.commands[k].op_type = "Measure"}

DrawsFor(p, c, by) ==
    {i \in 1..Len(drawLog[p]) : drawLog[p][i].circ = c /\ drawLog[p][i].by = by}

\* C9 as stated: in every shot each measurement primitive consumes its own
\* fresh draw, so a circuit with M Measure commands run for N shots has
\* consumed N * M measurement draws when its shots are done.
C9_AsStated ==
    ~env.mpi =>
        \A p \in Procs :
            pc[p] = "encode" /\ n_shots[p] >= 1 =>
                Cardinality(DrawsFor(p, Len(results[p]) + 1, "measure"))
                    = n_shots[p] * Cardinality(MeasureIndices(cur[p].circuit))

PhaseOf(by) == IF by = "measure" THEN 0 ELSE 1

Earlier(d, e) ==
    \/ d.circ < e.circ
    \/ d.circ = e.circ /\ PhaseOf(d.by) < PhaseOf(e.by)
    \/ d.circ = e.circ /\ d.by = e.by /\ d.k < e.k

\* C9, amended: in the per-shot build each Measure command consumes one
\* fresh draw when it is translated, in gate order and before the first
\* shot (the draw is the seed of its measurement gate), and each shot then
\* consumes one fresh draw, in shot order; a circuit with M Measure
\* commands run for N shots consumes M + N draws, at consecutive stream
\* positions, so the draw of shot k is the draw of no other shot and of no
\* measurement gate.
C9_DrawOrder ==
    ~env.mpi =>
        \A p \in Procs :
            LET log == drawLog[p]
                c == Len(results[p]) + 1
            IN  /\ \A i \in 1..Len(log) : log[i].pos = i - 1 /\ log[i].by \in {"measure", "shot"}
                /\ \A i \in 1..Len(log) : \A j \in 1..Len(log) :
                      i < j => Earlier(log[i], log[j])
                /\ \A i \in 1..Len(log) :
                      log[i].by = "measure" =>
                          circuits[p][log[i].circ].commands[log[i].k].op_type = "Measure"
                /\ \A i \in DrawsFor(p, c, "measure") :
                      pc[p] \in {"translate", "shots", "encode"} /\ log[i].k <= Len(cur[p].gates) =>
                          cur[p].gates[log[i].k].seed = log[i].value
                /\ pc[p] = "encode" =>
                      /\ {log[i].k : i \in DrawsFor(p, c, "measure")} = MeasureIndices(cur[p].circuit)
                      /\ {log[i].k : i \in DrawsFor(p, c, "shot")} = 1..n_shots[p]
                      /\ Cardinality(DrawsFor(p, c, "measure") \cup DrawsFor(p, c, "shot"))
                            = Cardinality(MeasureIndices(cur[p].circuit)) + n_shots[p]

\* The second circuit of a list, with two Measure commands, has run its two
\* shots: two draws at translation, then one per shot, after the draws of
\* the first circuit.
C9_Witness ==
    /\ ~env.mpi
    /\ pc[0] = "encode"
    /\ Len(results[0]) = 1
    /\ cur[0].circuit = Bell
    /\ n_shots[0] = 2
    /\ Len(drawLog[0]) >= 7
    /\ drawLog[0][Len(drawLog[0])].by = "shot"

(***************************************************************************)
(* Properties of convert_circuit (SpecTranslate).                          *)
(***************************************************************************)
Abs(n) == IF n < 0 THEN -n ELSE n

\* -v * pi, for v = (num / 2) * pi^piPow
MinusTimesPi(v) == [num |-> 0 - v.num, piPow |-> v.piPow + 1]

EvalsOf(p, k) == SelectSeq(evalLog[p], LAMBDA e : e.cmd = k)

\* C10: PhasedX(alpha, beta) on qubit q becomes a single gate, the
\* left-to-right merge of exactly three rotations on q in the order Rz, Rx,
\* Rz: the Rx angle is -alpha*pi, the two Rz angles are negations of each
\* other with magnitude beta*pi; parameter 0 is evaluated before parameter
\* 1; exactly one gate is appended for the command.
C10_PhasedXTranslation ==
    \A p \in Procs :
        LET commands == cur[p].circuit.commands
            gates == cur[p].gates
        IN  /\ pc[p] \in {"shots", "encode"} => Len(gates) = Len(commands)
            /\ pc[p] = "translate" => Len(gates) < Len(commands)
            /\ \A k \in 1..Len(gates) :
                  commands[k].op_type = "PhasedX" =>
                      LET g == gates[k]
                          q == commands[k].args[1].idx
                          alpha == Evaluated(commands[k].params[1]).val
                          beta == Evaluated(commands[k].params[2]).val
                      IN  /\ g.kind = "Merged"
                          /\ Len(g.parts) = 3
                          /\ <<g.parts[1].kind, g.parts[2].kind, g.parts[3].kind>>
                                = <<"RZ", "RX", "RZ">>
                          /\ \A i \in 1..3 : g.parts[i].targets = <<q>>
                          /\ g.parts[2].angle = MinusTimesPi(alpha)
                          /\ g.parts[1].angle.num = 0 - g.parts[3].angle.num
                          /\ g.parts[1].angle.piPow = g.parts[3].angle.piPow
                          /\ Abs(g.parts[1].angle.num) = Abs(beta.num)
                          /\ g.parts[1].angle.piPow = beta.piPow + 1
                          /\ EvalsOf(p, k) = <<[cmd |-> k, param |-> 0], [cmd |-> k, param |-> 1]>>
            /\ \A i \in 1..Len(evalLog[p]) :
                  commands[evalLog[p][i].cmd].op_type = "PhasedX" /\ evalLog[p][i].param = 1 =>
                      i > 1 /\ evalLog[p][i - 1] = [cmd |-> evalLog[p][i].cmd, param |-> 0]

\* PhasedX("1/2", "pi/2") on qubit 1, after a Measure, has been translated.
C10_Witness ==
    /\ pc[0] = "shots"
    /\ Len(cur[0].gates) = 2
    /\ cur[0].circuit.commands[2] = Command("PhasedX", <<"1/2", "pi/2">>, <<Q(1)>>)
    /\ cur[0].gates[2].parts[1].angle = F64(-1, 2)
    /\ cur[0].gates[2].parts[2].angle = F64(-1, 1)
    /\ cur[0].gates[2].parts[3].angle = F64(1, 2)

(***************************************************************************)
(* Argument indices against the circuit's declared qubit and bit lists.    *)
(***************************************************************************)

\* The gates convert_circuit has built so far for the circuit p translates,
\* each with the command it came from.
BuiltBy(p) == 1..Len(cur[p].gates)

\* The labels a built gate took its qubit targets from: the first
\* Len(targets) arguments of its command, in order.
QubitArg(p, k, i) == cur[p].circuit.commands[k].args[i]

\* Every qubit target of a built gate is below the declared qubit count.
QubitTargetsDeclared ==
    \A p \in Procs : \A k \in BuiltBy(p) :
        \A i \in 1..Len(cur[p].gates[k].targets) :
            cur[p].gates[k].targets[i] < Len(cur[p].circuit.qubits)

\* The classical target of a built Measurement is below the declared bit count.
ClassicalTargetsDeclared ==
    \A p \in Procs : \A k \in BuiltBy(p) :
        cur[p].gates[k].kind = "Measurement"
            => cur[p].gates[k].reg < Len(cur[p].circuit.bits)

\* Two distinct declared qubit labels never give the same target index.
DistinctLabelsDistinctTargets ==
    \A p \in Procs : \A k1, k2 \in BuiltBy(p) :
        \A i1 \in 1..Len(cur[p].gates[k1].targets) :
            \A i2 \in 1..Len(cur[p].gates[k2].targets) :
                LET declared == {cur[p].circuit.qubits[j] :
                                    j \in 1..Len(cur[p].circuit.qubits)}
                    l1 == QubitArg(p, k1, i1)
                    l2 == QubitArg(p, k2, i2)
                IN  (l1 \in declared /\ l2 \in declared /\ l1 # l2)
                        => cur[p].gates[k1].targets[i1] # cur[p].gates[k2].targets[i2]

\* A stored index that does not convert to u32 never yields a gate: the
\* translation stops with the conversion's panic.
UnfitIndexAborts ==
    \A p \in Procs :
        /\ \A k \in BuiltBy(p) :
              /\ \A i \in 1..Len(cur[p].gates[k].targets) : QubitArg(p, k, i).idx >= 0
              /\ cur[p].gates[k].kind = "Measurement"
                    => cur[p].circuit.commands[k].args[2].idx >= 0
        /\ failure[p] = "argument" => pc[p] = "failed"

\* C11: every target index convert_circuit hands to a primitive gate
\* resolves against the circuit's declared lists: a qubit target is below the
\* declared qubit count, a Measure's classical target is below the declared
\* bit count, two distinct declared labels never resolve to the same target
\* index, and a stored index that does not fit u32 aborts the translation.
C11_TargetsResolve ==
    /\ QubitTargetsDeclared
    /\ ClassicalTargetsDeclared
    /\ DistinctLabelsDistinctTargets
    /\ UnfitIndexAborts

====
